---- MODULE Spec2Model ----
(***************************************************************************)
(* Model of the GIMP median-filter plug-in (src/median.c).                 *)
(*                                                                         *)
(* The state is the plug-in's global option struct, the drawable it works  *)
(* on, the locals of median() (row window, output row, loop counter) and   *)
(* the calls it makes to its collaborators (row source, row sink,          *)
(* progress bar, allocator).  Each action is one function of the source,   *)
(* or one call site in the body of median().                               *)
(***************************************************************************)
EXTENDS Integers, Sequences, FiniteSets, TLC

VARIABLES
    UserInputValues, \* the global MedianInputValues struct
    stored,          \* what gimp_set_data last saved under "plug-in-median"
    drawable,        \* the drawable: geometry of the selection and its rows
    pc,              \* position: idle, dialog, or a call site inside median()
    runMode,         \* run_mode of the current run()
    status,          \* status local of run()
    values,          \* values[0].data.d_status, the status run() hands back
    preview,         \* median()'s preview argument is non-NULL
    i,               \* loop counter i of median()
    inputRow,        \* the row-pointer array: slot -> row buffer
    rowBuf,          \* contents of each row buffer
    rowPos,          \* vertical position each row buffer was last fetched from
    outputRow,       \* contents of the output row buffer
    beyond,          \* the gint lying just past the end of pixelsArray
    px,              \* per output byte: what handleInputRow sampled and computed
    sink,            \* calls of gimp_pixel_rgn_set_row of this median() call
    fetched,         \* number of gimp_pixel_rgn_get_row calls of this median() call
    progressInit,    \* calls of gimp_progress_init of this median() call
    progressLog,     \* calls of gimp_progress_update of this median() call
    trace,           \* order of the calls made by the loop of median()
    inputRowPtr,     \* address of the row-pointer array
    outputRowPtr,    \* address of the output row buffer
    heap,            \* addresses of the live allocations
    runs,            \* invocations of run() so far
    edits,           \* edits made in the dialog so far
    merges,          \* the non-preview median() calls completed so far
    lastRun          \* the last completed median() call: its input and its rows

vars == <<UserInputValues, stored, drawable, pc, runMode, status, values, preview, i,
          inputRowPtr, outputRowPtr, inputRow, rowBuf, rowPos, outputRow, beyond, px,
          sink, fetched, progressInit, progressLog, trace, heap, runs, edits, merges, lastRun>>

-----------------------------------------------------------------------------
(* Bounds of the model *)

MaxRadius == 2
MaxWidth == 3
MaxHeight == 3
MaxChannels == 2
MaxY1 == 1
MaxRuns == 2
MaxEdits == 1

(* Program constants *)

ProgressPeriod == 16
RequiredParams == 4
ByteRange == 256

\* Thresholds a user sets in the dialog (the spin buttons allow 0..255).
ThresholdVals == {0, 5}

\* What a read past the end of pixelsArray can yield: a gint of heap memory the
\* plug-in never writes, taken to keep its value during one call of median().
Garbage == {-1, 300}

-----------------------------------------------------------------------------
(* Macros and library functions *)

CLAMP(x, low, high) == IF x > high THEN high ELSE IF x < low THEN low ELSE x

MIN(a, b) == IF a < b THEN a ELSE b

compareNumbers(a, b) == (IF a > b THEN 1 ELSE 0) - (IF a < b THEN 1 ELSE 0)

qsort(array) == SortSeq(array, LAMBDA a, b : compareNumbers(a, b) < 0)

\* storing a gint into a guchar keeps its low byte
ToUChar(v) == v % ByteRange

-----------------------------------------------------------------------------
(* The option struct and the drawables the model starts from *)

\* static MedianInputValues UserInputValues = { 2, 1, 0, 0, FALSE, FALSE }
Defaults ==
    [radius |-> 2, preview |-> TRUE, lessThan |-> 0, greaterThan |-> 0,
     button |-> FALSE, button2 |-> FALSE]

Patterns == {"flat", "noise"}

\* the byte of channel c of the pixel in column x of row y
Pixel(pat, y, x, c) ==
    CASE pat = "flat"  -> 10 + 7 * c
      [] OTHER         -> (5 * x + 91 * y + 13 * c + 5) % ByteRange

\* a drawable whose selection is rows y1 .. y1+height-1, all columns; the
\* preview shows the same rectangle
GenImage(w, h, ch, y1, pat) ==
    [width |-> w, height |-> h, channels |-> ch, y1 |-> y1,
     rows |-> [y \in 0 .. (y1 + h - 1) |->
                 [n \in 1 .. (w * ch) |-> Pixel(pat, y, (n - 1) \div ch, (n - 1) % ch)]]]

\* the 5x1 single-channel row with one spike
ScenarioImage ==
    [width |-> 5, height |-> 1, channels |-> 1, y1 |-> 0,
     rows |-> [y \in 0 .. 0 |-> <<10, 200, 10, 10, 10>>]]

\* a one-column drawable tall enough for two progress updates
TallHeight == ProgressPeriod + 2
TallImage ==
    [width |-> 1, height |-> TallHeight, channels |-> 1, y1 |-> 0,
     rows |-> [y \in 0 .. (TallHeight - 1) |-> <<(37 * y + 3) % ByteRange>>]]

Images ==
    { GenImage(w, h, ch, y1, pat) :
        w \in 1 .. MaxWidth, h \in 1 .. MaxHeight, ch \in 1 .. MaxChannels,
        y1 \in 0 .. MaxY1, pat \in Patterns }
    \cup {ScenarioImage, TallImage}

-----------------------------------------------------------------------------
(* handleInputRow, per output byte *)

\* numberOfPixels = 4*r*r + 4*r + 1
numberOfPixels(radius) == 4 * radius * radius + 4 * radius + 1

\* [mutant] the channel offset k is left out
SampleOffsetNoChannel(jj, k, width, channels) == channels * CLAMP(jj, 0, width - 1)

\* offset into a row of the sample taken for window column jj, channel k
SampleOffset(jj, k, width, channels) == channels * CLAMP(jj, 0, width - 1) + k

\* [mutant] the two sampling loops are nested the other way round
SamplesColumnMajor(window, j, k, radius, width, channels) ==
    [n \in 1 .. numberOfPixels(radius) |->
        LET ii == (n - 1) % (2 * radius + 1)
            jj == (j - radius) + ((n - 1) \div (2 * radius + 1))
        IN  window[ii + 1][SampleOffset(jj, k, width, channels) + 1]]

\* pixelsArray after the two sampling loops, for column j and channel k;
\* window[ii + 1] is the contents of inputRow[ii]
Samples(window, j, k, radius, width, channels) ==
    [n \in 1 .. numberOfPixels(radius) |->
        LET ii == (n - 1) \div (2 * radius + 1)
            jj == (j - radius) + ((n - 1) % (2 * radius + 1))
        IN  window[ii + 1][SampleOffset(jj, k, width, channels) + 1]]

\* the read pixelsArray[index]; past the end it yields whatever lies there
ReadArray(array, index, garbage) ==
    IF index >= 0 /\ index < Len(array) THEN array[index + 1] ELSE garbage

\* [mutant] the index is one further up
MedianIndexNext(n) == (n \div 2) + 2

\* the index (or, for an even count, the upper index) read for the median
MedianIndex(n) == (n \div 2) + 1

\* medianResult, from the sorted pixelsArray
MedianOf(sorted, garbage) ==
    LET n == Len(sorted)
        mid == n \div 2
    IN  IF n % 2 = 1
        THEN ReadArray(sorted, MedianIndex(n), garbage)
        ELSE (ReadArray(sorted, mid, garbage) + ReadArray(sorted, MedianIndex(n), garbage)) \div 2

\* [mutant] the last variant joins its two tests with && instead of ||
DecideAnd(middlePixel, medianResult, U) ==
    IF U.lessThan # 0 /\ U.greaterThan = 0 /\ U.button /\ ~U.button2
    THEN IF middlePixel < medianResult - U.lessThan THEN medianResult ELSE middlePixel
    ELSE IF U.lessThan = 0 /\ U.greaterThan # 0 /\ ~U.button /\ U.button2
    THEN IF middlePixel > medianResult + U.greaterThan THEN medianResult ELSE middlePixel
    ELSE IF U.lessThan # 0 /\ U.greaterThan # 0 /\ ~U.button2 /\ ~U.button
    THEN IF middlePixel >= medianResult - U.lessThan
            /\ middlePixel <= medianResult + U.greaterThan
         THEN medianResult ELSE middlePixel
    ELSE IF U.lessThan # 0 /\ U.greaterThan # 0 /\ U.button2 /\ U.button
    THEN IF middlePixel < medianResult - U.lessThan
            /\ middlePixel > medianResult + U.greaterThan
         THEN medianResult ELSE middlePixel
    ELSE medianResult

\* result, from the variant checks
Decide(middlePixel, medianResult, U) ==
    IF U.lessThan # 0 /\ U.greaterThan = 0 /\ U.button /\ ~U.button2
    THEN IF middlePixel < medianResult - U.lessThan THEN medianResult ELSE middlePixel
    ELSE IF U.lessThan = 0 /\ U.greaterThan # 0 /\ ~U.button /\ U.button2
    THEN IF middlePixel > medianResult + U.greaterThan THEN medianResult ELSE middlePixel
    ELSE IF U.lessThan # 0 /\ U.greaterThan # 0 /\ ~U.button2 /\ ~U.button
    THEN IF middlePixel >= medianResult - U.lessThan
            /\ middlePixel <= medianResult + U.greaterThan
         THEN medianResult ELSE middlePixel
    ELSE IF U.lessThan # 0 /\ U.greaterThan # 0 /\ U.button2 /\ U.button
    THEN IF middlePixel < medianResult - U.lessThan
            \/ middlePixel > medianResult + U.greaterThan
         THEN medianResult ELSE middlePixel
    ELSE medianResult

\* [mutant] middlePixel is read after pixelsArray has been sorted
HandlePixelSortFirst(window, j, k, U, width, channels, garbage) ==
    LET pixelsArray == Samples(window, j, k, U.radius, width, channels)
        sorted == qsort(pixelsArray)
        middlePosition == numberOfPixels(U.radius) \div 2
        middlePixel == ReadArray(sorted, middlePosition, garbage)
        medianResult == MedianOf(sorted, garbage)
    IN  [samples |-> pixelsArray,
         middle  |-> middlePixel,
         median  |-> medianResult,
         index   |-> MedianIndex(Len(sorted)),
         result  |-> Decide(middlePixel, medianResult, U)]

\* the body of the channel loop for column j, channel k
HandlePixel(window, j, k, U, width, channels, garbage) ==
    LET pixelsArray == Samples(window, j, k, U.radius, width, channels)
        middlePosition == numberOfPixels(U.radius) \div 2
        middlePixel == ReadArray(pixelsArray, middlePosition, garbage)
        sorted == qsort(pixelsArray)
        medianResult == MedianOf(sorted, garbage)
    IN  [samples |-> pixelsArray,
         middle  |-> middlePixel,
         median  |-> medianResult,
         index   |-> MedianIndex(Len(sorted)),
         result  |-> Decide(middlePixel, medianResult, U)]

\* offset into outputRow of the byte for column j, channel k
OutputOffset(j, k, channels) == channels * j + k

\* one call of handleInputRow: what it computes for column j, channel k
HandleRow(window, U, width, channels, garbage) ==
    [p \in (0 .. (width - 1)) \X (0 .. (channels - 1)) |->
        HandlePixel(window, p[1], p[2], U, width, channels, garbage)]

\* outputRow after the call: each byte holds the last result stored at its
\* offset, and keeps its old contents if no result was stored there
StoreRow(old, computed, width, channels) ==
    [n \in 1 .. (width * channels) |->
        LET writers == { p \in DOMAIN computed :
                           OutputOffset(p[1], p[2], channels) = n - 1 }
            last == CHOOSE p \in writers :
                      \A q \in writers : q[1] < p[1] \/ (q[1] = p[1] /\ q[2] <= p[2])
        IN  IF writers = {} THEN old[n] ELSE ToUChar(computed[last].result)]

-----------------------------------------------------------------------------
(* State after the plug-in is loaded *)

NoRun == [valid |-> FALSE, preview |-> FALSE, src |-> <<>>, U |-> Defaults, rows |-> <<>>]

Init ==
    /\ UserInputValues = Defaults
    /\ stored = Defaults
    /\ drawable \in Images
    /\ pc = "idle"
    /\ runMode = "NONE"
    /\ status = "GIMP_PDB_SUCCESS"
    /\ values = "GIMP_PDB_SUCCESS"
    /\ preview = FALSE
    /\ i = 0
    /\ inputRowPtr = 0
    /\ outputRowPtr = 0
    /\ inputRow = <<>>
    /\ rowBuf = <<>>
    /\ rowPos = <<>>
    /\ outputRow = <<>>
    /\ beyond = 0
    /\ px = <<>>
    /\ sink = <<>>
    /\ fetched = 0
    /\ progressInit = 0
    /\ progressLog = <<>>
    /\ trace = <<>>
    /\ heap = {}
    /\ runs = 0
    /\ edits = 0
    /\ merges = 0
    /\ lastRun = NoRun

-----------------------------------------------------------------------------
(* median() *)

\* addresses g_new returns for n new blocks: none of them is live
Fresh(live, n) ==
    LET top == IF live = {} THEN 0 ELSE CHOOSE a \in live : \A b \in live : b <= a
    IN  [s \in 1 .. n |-> top + s]

\* gimp_pixel_rgn_get_row: the row of the drawable at vertical position y;
\* a position outside the drawable yields no data
GetRow(y) == IF y \in DOMAIN drawable.rows THEN drawable.rows[y] ELSE <<>>

\* vertical position the first loop of median() fetches into inputRow[radius + ii]
FillPos(ii, y1, height) == y1 + CLAMP(ii, 0, height - 1)

\* vertical position shuffle_tile_rows fetches into inputRow[0]
ShufflePos(ypos, radius, y1, height) == MIN(ypos + radius + y1, y1 + height - 1)

\* does handleInputRow read past the end of pixelsArray?
ReadsPastEnd(radius) == MedianIndex(numberOfPixels(radius)) >= numberOfPixels(radius)

\* median() from its entry to the end of its first loop: progress bar,
\* initializeMemory and the initial fill of the row window.  g_new leaves
\* outputRow unset; handleInputRow stores every byte of it before it is read.
MedianEnter(U, pv) ==
    LET slots == 2 * U.radius + 1
        blocks == Fresh(heap, slots + 2)
        rowsOf == [s \in 1 .. slots |-> blocks[s + 1]]
    IN  /\ preview' = pv
        /\ progressInit' = IF pv THEN 0 ELSE 1
        /\ progressLog' = <<>>
        /\ inputRowPtr' = blocks[1]
        /\ inputRow' = rowsOf
        /\ outputRowPtr' = blocks[slots + 2]
        /\ heap' = heap \cup { blocks[s] : s \in 1 .. (slots + 2) }
        /\ outputRow' = [n \in 1 .. (drawable.width * drawable.channels) |-> 0]
        /\ rowBuf' = [b \in { rowsOf[s] : s \in 1 .. slots } |->
                        LET s == CHOOSE t \in 1 .. slots : rowsOf[t] = b
                        IN  GetRow(FillPos(s - 1 - U.radius, drawable.y1, drawable.height))]
        /\ rowPos' = [b \in { rowsOf[s] : s \in 1 .. slots } |->
                        LET s == CHOOSE t \in 1 .. slots : rowsOf[t] = b
                        IN  FillPos(s - 1 - U.radius, drawable.y1, drawable.height)]
        /\ fetched' = slots
        /\ beyond' \in (IF ReadsPastEnd(U.radius) THEN Garbage ELSE {0})
        /\ px' = <<>>
        /\ sink' = <<>>
        /\ trace' = <<>>
        /\ i' = 0
        /\ pc' = IF 0 < drawable.height THEN "loop" ELSE "free"

\* the row window as handleInputRow reads it: slot -> contents
Window == [s \in 1 .. Len(inputRow) |-> rowBuf[inputRow[s]]]

\* [mutant] the selection's offset y1 is left out
SetRowPosNoOffset(row, y1) == row

\* vertical position of the row median() hands to the sink in iteration row
SetRowPos(row, y1) == row + y1

\* [mutant] the test for a preview is left out
ProgressDueAlways(row, pv) == row % ProgressPeriod = 0

\* is the progress bar updated at the end of iteration row?
ProgressDue(row, pv) == ~pv /\ row % ProgressPeriod = 0

\* the calls one iteration of the loop of median() makes, in their order
LoopCalls(row, pv) ==
    <<  <<"handleInputRow", row>>, <<"set_row", row>>, <<"shuffle_tile_rows", row>>  >>
    \o (IF ProgressDue(row, pv) THEN << <<"progress_update", row>> >> ELSE <<>>)

\* [mutant] the pointer taken from slot 0 is not put back into the last slot
RotateNoTmp(array) ==
    [s \in 1 .. Len(array) |-> IF s < Len(array) THEN array[s + 1] ELSE array[s]]

\* the row-pointer array after the shift at the end of shuffle_tile_rows
Rotate(array) ==
    LET tmp_inputRow == array[1]
    IN  [s \in 1 .. Len(array) |-> IF s < Len(array) THEN array[s + 1] ELSE tmp_inputRow]

\* one iteration of the loop of median(): handleInputRow, gimp_pixel_rgn_set_row,
\* shuffle_tile_rows, gimp_progress_update, i++ and the loop test
LoopBody ==
    /\ pc = "loop"
    /\ px' = HandleRow(Window, UserInputValues, drawable.width, drawable.channels, beyond)
    /\ outputRow' = StoreRow(outputRow, px', drawable.width, drawable.channels)
    /\ sink' = Append(sink, [y |-> SetRowPos(i, drawable.y1), row |-> outputRow'])
    /\ LET pos == ShufflePos(i, UserInputValues.radius, drawable.y1, drawable.height)
       IN  /\ rowBuf' = [rowBuf EXCEPT ![inputRow[1]] = GetRow(pos)]
           /\ rowPos' = [rowPos EXCEPT ![inputRow[1]] = pos]
    /\ inputRow' = Rotate(inputRow)
    /\ fetched' = fetched + 1
    /\ progressLog' = IF ProgressDue(i, preview)
                      THEN Append(progressLog, [row |-> i, height |-> drawable.height])
                      ELSE progressLog
    /\ trace' = trace \o LoopCalls(i, preview)
    /\ i' = i + 1
    /\ pc' = IF i + 1 < drawable.height THEN "loop" ELSE "free"
    /\ UNCHANGED <<UserInputValues, stored, drawable, runMode, status, values, preview,
                   inputRowPtr, outputRowPtr, beyond, progressInit, heap, runs, edits,
                   merges, lastRun>>

\* the drawable after gimp_drawable_merge_shadow: the rows given to the sink
\* replace the rows at their positions
MergeShadow(d, written) ==
    [d EXCEPT !.rows =
        [y \in DOMAIN d.rows |->
            LET calls == { n \in 1 .. Len(written) : written[n].y = y }
            IN  IF calls = {} THEN d.rows[y]
                ELSE written[CHOOSE n \in calls : \A m \in calls : m <= n].row]]

\* median() from its two g_free calls to its return
MedianExit ==
    /\ pc = "free"
    /\ heap' = heap \ {inputRowPtr, outputRowPtr}
    /\ drawable' = IF preview THEN drawable ELSE MergeShadow(drawable, sink)
    /\ merges' = IF preview THEN merges ELSE merges + 1
    /\ lastRun' = [valid |-> TRUE, preview |-> preview, src |-> drawable,
                   U |-> UserInputValues, rows |-> sink]
    /\ pc' = IF preview THEN "dialog" ELSE "flush"
    /\ UNCHANGED <<UserInputValues, stored, runMode, status, values, preview, i, inputRowPtr,
                   outputRowPtr, inputRow, rowBuf, rowPos, outputRow, beyond, px, sink, fetched,
                   progressInit, progressLog, trace, runs, edits>>

-----------------------------------------------------------------------------
(* run() and the dialog *)

RunModes == {"GIMP_RUN_INTERACTIVE", "GIMP_RUN_NONINTERACTIVE", "GIMP_RUN_WITH_LAST_VALS"}

\* the settings a user reaches with the three spin buttons:
\* radius 1..30 (bounded by MaxRadius), thresholds 0..255 (sampled)
SpinRadius == 1 .. MaxRadius

\* run() entered with GIMP_RUN_INTERACTIVE: gimp_get_data, then medianDialog
\* up to its own call median (drawable, preview)
RunInteractive ==
    /\ pc = "idle"
    /\ runs < MaxRuns
    /\ runs' = runs + 1
    /\ runMode' = "GIMP_RUN_INTERACTIVE"
    /\ status' = "GIMP_PDB_SUCCESS"
    /\ values' = "GIMP_PDB_SUCCESS"
    /\ UserInputValues' = stored
    /\ MedianEnter(stored, TRUE)
    /\ UNCHANGED <<stored, drawable, edits, merges, lastRun>>

\* status after the GIMP_RUN_NONINTERACTIVE case of run()
NonInteractiveStatus(numberOfInputParams) ==
    IF numberOfInputParams # RequiredParams
    THEN "GIMP_PDB_CALLING_ERROR" ELSE "GIMP_PDB_SUCCESS"

\* run() entered with GIMP_RUN_NONINTERACTIVE, up to and including the entry
\* of median (drawable, NULL)
RunNonInteractive(numberOfInputParams, radiusParam) ==
    /\ pc = "idle"
    /\ runs < MaxRuns
    /\ runs' = runs + 1
    /\ runMode' = "GIMP_RUN_NONINTERACTIVE"
    /\ values' = "GIMP_PDB_SUCCESS"
    /\ status' = NonInteractiveStatus(numberOfInputParams)
    /\ UserInputValues' = IF status' = "GIMP_PDB_SUCCESS"
                          THEN [UserInputValues EXCEPT !.radius = radiusParam]
                          ELSE UserInputValues
    /\ MedianEnter(UserInputValues', FALSE)
    /\ UNCHANGED <<stored, drawable, edits, merges, lastRun>>

\* run() entered with GIMP_RUN_WITH_LAST_VALS, up to and including the entry
\* of median (drawable, NULL)
RunWithLastVals ==
    /\ pc = "idle"
    /\ runs < MaxRuns
    /\ runs' = runs + 1
    /\ runMode' = "GIMP_RUN_WITH_LAST_VALS"
    /\ status' = "GIMP_PDB_SUCCESS"
    /\ values' = "GIMP_PDB_SUCCESS"
    /\ UserInputValues' = stored
    /\ MedianEnter(stored, FALSE)
    /\ UNCHANGED <<stored, drawable, edits, merges, lastRun>>

\* does an edit change a spin button, so that the preview is invalidated?
Invalidates(old, new) ==
    <<new.radius, new.lessThan, new.greaterThan>> #
        <<old.radius, old.lessThan, old.greaterThan>>

\* the user edits the widgets while gimp_dialog_run waits: the spin buttons
\* store radius, lessThan and greaterThan and invalidate the preview, whose
\* "invalidated" handler is median (drawable, preview); the check buttons
\* store button and button2 and invalidate nothing
DialogEdit(radius, lessThan, greaterThan, button, button2) ==
    /\ pc = "dialog"
    /\ edits < MaxEdits
    /\ UserInputValues' = [UserInputValues EXCEPT !.radius = radius,
                                                  !.lessThan = lessThan,
                                                  !.greaterThan = greaterThan,
                                                  !.button = button,
                                                  !.button2 = button2]
    /\ UserInputValues' # UserInputValues
    /\ edits' = edits + 1
    /\ IF Invalidates(UserInputValues, UserInputValues')
       THEN MedianEnter(UserInputValues', TRUE)
       ELSE UNCHANGED <<pc, preview, i, inputRowPtr, outputRowPtr, inputRow, rowBuf,
                        rowPos, outputRow, beyond, px, sink, fetched, progressInit,
                        progressLog, trace, heap>>
    /\ UNCHANGED <<stored, drawable, runMode, status, values, runs, merges, lastRun>>

\* gimp_dialog_run returns GTK_RESPONSE_OK: medianDialog returns TRUE and run()
\* calls median (drawable, NULL)
DialogOK ==
    /\ pc = "dialog"
    /\ MedianEnter(UserInputValues, FALSE)
    /\ UNCHANGED <<UserInputValues, stored, drawable, runMode, status, values, runs,
                   edits, merges, lastRun>>

\* the plug-in process ends: its memory and its locals are gone
ProcessEnd ==
    /\ UserInputValues' = Defaults
    /\ pc' = "idle"
    /\ runMode' = "NONE"
    /\ preview' = FALSE
    /\ i' = 0
    /\ inputRowPtr' = 0
    /\ outputRowPtr' = 0
    /\ inputRow' = <<>>
    /\ rowBuf' = <<>>
    /\ rowPos' = <<>>
    /\ outputRow' = <<>>
    /\ beyond' = 0
    /\ px' = <<>>
    /\ sink' = <<>>
    /\ fetched' = 0
    /\ progressInit' = 0
    /\ progressLog' = <<>>
    /\ trace' = <<>>
    /\ heap' = {}
    /\ lastRun' = NoRun

\* gimp_dialog_run returns another response: medianDialog returns FALSE and
\* run() returns without filtering
DialogCancel ==
    /\ pc = "dialog"
    /\ ProcessEnd
    /\ UNCHANGED <<stored, drawable, status, values, runs, edits, merges>>

\* run() after median() returned: flush, detach, gimp_set_data when interactive
RunExit ==
    /\ pc = "flush"
    /\ stored' = IF runMode = "GIMP_RUN_INTERACTIVE" THEN UserInputValues ELSE stored
    /\ ProcessEnd
    /\ UNCHANGED <<drawable, status, values, runs, edits, merges>>

Next ==
    \/ RunInteractive
    \/ \E n \in {RequiredParams - 1, RequiredParams}, r \in 0 .. MaxRadius :
          RunNonInteractive(n, r)
    \/ RunWithLastVals
    \/ \E r \in SpinRadius, lt \in ThresholdVals, gt \in ThresholdVals,
          b \in BOOLEAN, b2 \in BOOLEAN :
          DialogEdit(r, lt, gt, b, b2)
    \/ DialogOK
    \/ DialogCancel
    \/ LoopBody
    \/ MedianExit
    \/ RunExit

Spec == Init /\ [][Next]_vars

-----------------------------------------------------------------------------
(* Vocabulary of the properties *)

\* a call of median() is in progress
InMedian == pc \in {"loop", "free"}

\* the loop of median() has ended and its rows are all in the sink
LoopDone == pc = "free"

Radius == UserInputValues.radius

\* the four variant modes, as the configuration selects them
SuppressLow(U)  == U.lessThan # 0 /\ U.greaterThan = 0 /\ U.button /\ ~U.button2
SuppressHigh(U) == U.lessThan = 0 /\ U.greaterThan # 0 /\ ~U.button /\ U.button2
BandKeep(U)     == U.lessThan # 0 /\ U.greaterThan # 0 /\ ~U.button /\ ~U.button2
BandReject(U)   == U.lessThan # 0 /\ U.greaterThan # 0 /\ U.button /\ U.button2
DefaultMode(U)  == ~SuppressLow(U) /\ ~SuppressHigh(U) /\ ~BandKeep(U) /\ ~BandReject(U)

\* ascending order, by insertion
RECURSIVE Ascending(_)
Ascending(seq) ==
    IF seq = <<>> THEN <<>>
    ELSE LET rest == Ascending(Tail(seq))
             x == Head(seq)
             k == Cardinality({n \in 1 .. Len(rest) : rest[n] < x})
         IN  SubSeq(rest, 1, k) \o <<x>> \o SubSeq(rest, k + 1, Len(rest))

\* the middle element of the ascending samples
MiddleElement(samples) == Ascending(samples)[(Len(samples) \div 2) + 1]

Clamp(v, lo, hi) == IF v < lo THEN lo ELSE IF v > hi THEN hi ELSE v

\* the (2r+1)^2 source samples around column x of row y (relative to the
\* selection) in channel c, edges clamped
Neighbourhood(d, y, x, c, r) ==
    [n \in 1 .. (2 * r + 1) * (2 * r + 1) |->
        LET dy == ((n - 1) \div (2 * r + 1)) - r
            dx == ((n - 1) % (2 * r + 1)) - r
        IN  d.rows[d.y1 + Clamp(y + dy, 0, d.height - 1)]
                  [Clamp(x + dx, 0, d.width - 1) * d.channels + c + 1]]

\* every byte of each channel of the drawable has one value
IsFlat(d) ==
    \A y \in DOMAIN d.rows : \A n \in 1 .. (d.width * d.channels) :
        d.rows[y][n] = d.rows[0][((n - 1) % d.channels) + 1]

-----------------------------------------------------------------------------
(* C1 *)

\* C1: in default mode and for radius >= 1, after a complete run of median()
\* every byte of every output row is written and equals the middle element of
\* the sorted (2r+1)^2 edge-clamped source samples around it.
C1_OutputIsTrueMedian ==
    (LoopDone /\ Radius >= 1 /\ DefaultMode(UserInputValues)) =>
        /\ Len(sink) = drawable.height
        /\ \A n \in 1 .. Len(sink) :
              /\ Len(sink[n].row) = drawable.width * drawable.channels
              /\ \A x \in 0 .. (drawable.width - 1), c \in 0 .. (drawable.channels - 1) :
                    sink[n].row[x * drawable.channels + c + 1] =
                        MiddleElement(Neighbourhood(drawable, sink[n].y - drawable.y1,
                                                    x, c, Radius))

-----------------------------------------------------------------------------
(* C2 *)

\* C2: for radius >= 1 the median handleInputRow computes for a byte is the
\* element at index n/2 of its ascending samples, the true middle element.
C2_MedianIsMiddleElement ==
    (InMedian /\ Radius >= 1) =>
        \A p \in DOMAIN px : px[p].median = MiddleElement(px[p].samples)

-----------------------------------------------------------------------------
(* C3 *)

\* the value the variant policy emits for original byte o and median m
PolicyValue(o, m, U) ==
    CASE SuppressLow(U)  -> IF o < m - U.lessThan THEN m ELSE o
      [] SuppressHigh(U) -> IF o > m + U.greaterThan THEN m ELSE o
      [] BandKeep(U)     -> IF m - U.lessThan <= o /\ o <= m + U.greaterThan THEN m ELSE o
      [] BandReject(U)   -> IF o < m - U.lessThan \/ o > m + U.greaterThan THEN m ELSE o
      [] OTHER           -> m

\* how many of the five cases the configuration selects
CasesSelected(U) ==
    Cardinality({ n \in 1 .. 5 :
        \/ n = 1 /\ SuppressLow(U)
        \/ n = 2 /\ SuppressHigh(U)
        \/ n = 3 /\ BandKeep(U)
        \/ n = 4 /\ BandReject(U)
        \/ n = 5 /\ DefaultMode(U) })

\* bytes around the thresholds of a median of 10, and the ends of the range
ByteSamples == {0, 4, 5, 6, 10, 14, 15, 16, 250, 255}

\* C3: for every original byte o and median m in 0..255, exactly one of the
\* five cases is selected, and handleInputRow emits the value of that case:
\* result, and the byte stored in outputRow, are PolicyValue(o, m); under the
\* configuration of the run the variant checks give PolicyValue(o, m) for
\* every pair of sampled bytes as well.
C3_VariantPolicy ==
    InMedian =>
        /\ \A p \in DOMAIN px :
              (px[p].middle \in 0 .. 255 /\ px[p].median \in 0 .. 255) =>
                  /\ CasesSelected(UserInputValues) = 1
                  /\ px[p].result =
                         PolicyValue(px[p].middle, px[p].median, UserInputValues)
                  /\ outputRow[drawable.channels * p[1] + p[2] + 1] =
                         PolicyValue(px[p].middle, px[p].median, UserInputValues)
        /\ LoopDone =>
              \A o \in ByteSamples, m \in ByteSamples :
                  Decide(o, m, UserInputValues) = PolicyValue(o, m, UserInputValues)

\* band-reject is active and a byte above the band is replaced by the median
C3_Witness ==
    /\ InMedian
    /\ BandReject(UserInputValues)
    /\ \E p \in DOMAIN px :
          /\ px[p].median \in 0 .. 255
          /\ px[p].middle > px[p].median + UserInputValues.greaterThan
          /\ px[p].result = px[p].median
          /\ outputRow[drawable.channels * p[1] + p[2] + 1] = px[p].median

-----------------------------------------------------------------------------
(* C4 *)

\* C4: during a run the sink is called once for each vertical position
\* y1 .. y1+h-1, in increasing order and for no other; the call for row i
\* comes after handleInputRow for row i and before shuffle_tile_rows for row i.
C4_SinkOncePerRowInOrder ==
    InMedian =>
        /\ Len(sink) <= drawable.height
        /\ LoopDone => Len(sink) = drawable.height
        /\ \A n \in 1 .. Len(sink) : sink[n].y = drawable.y1 + (n - 1)
        /\ LET calls == SelectSeq(trace, LAMBDA e : e[1] = "set_row")
           IN  /\ Len(calls) = Len(sink)
               /\ \A n \in 1 .. Len(calls) : calls[n][2] = n - 1
        /\ \A n \in 1 .. Len(trace) :
              trace[n][1] = "set_row" =>
                 /\ \E a \in 1 .. (n - 1) : trace[a] = <<"handleInputRow", trace[n][2]>>
                 /\ \A b \in 1 .. n : trace[b] # <<"shuffle_tile_rows", trace[n][2]>>
                 /\ \E b \in (n + 1) .. Len(trace) :
                       trace[b] = <<"shuffle_tile_rows", trace[n][2]>>

\* a finished run over three rows of a selection that starts at row 1
C4_Witness ==
    /\ LoopDone
    /\ drawable.y1 = 1
    /\ drawable.height = 3
    /\ Len(sink) = 3

-----------------------------------------------------------------------------
(* C5 *)

\* C5: entered with radius <= 0, or width <= 0 or height <= 0, median() fails
\* fast: nothing is allocated, no source row is fetched, no row is written to
\* the sink, and the failure is reported to the caller.
C5_FailFast ==
    (InMedian /\ (Radius <= 0 \/ drawable.width <= 0 \/ drawable.height <= 0)) =>
        /\ heap = {}
        /\ fetched = 0
        /\ sink = <<>>
        /\ values # "GIMP_PDB_SUCCESS"

-----------------------------------------------------------------------------
(* C6 *)

\* C6: with radius = 0 every index used to read the sample array lies in
\* 0 .. count-1, and the median is the single sample.
C6_SingleSample ==
    (InMedian /\ Radius = 0) =>
        \A p \in DOMAIN px :
            /\ px[p].index \in 0 .. (Len(px[p].samples) - 1)
            /\ px[p].median = px[p].samples[1]

-----------------------------------------------------------------------------
(* C7 *)

\* C7: on a uniform image, for every radius >= 1 and every configuration,
\* each row the run writes is the uniform row, all rows are written, and the
\* drawable after the run is the drawable before it, so that a second run
\* starts from the same image and writes the same rows.
C7_FlatFieldFixedPoint ==
    /\ (InMedian /\ Radius >= 1 /\ IsFlat(drawable)) =>
          /\ \A n \in 1 .. Len(sink) : sink[n].row = drawable.rows[0]
          /\ LoopDone => Len(sink) = drawable.height
    /\ (pc = "flush" /\ Radius >= 1) =>
          (IsFlat(lastRun.src) => drawable = lastRun.src)

\* the second of two runs on a uniform two-channel image, in a variant mode,
\* has written all its rows
C7_Witness ==
    /\ LoopDone
    /\ ~preview
    /\ merges = 1
    /\ IsFlat(drawable)
    /\ drawable.channels = 2
    /\ drawable.height = 3
    /\ drawable.rows[0][1] # drawable.rows[0][2]
    /\ Radius >= 1
    /\ ~DefaultMode(UserInputValues)
    /\ Len(sink) = 3

-----------------------------------------------------------------------------
(* C8 *)

ScenarioOutput == <<10, 10, 10, 10, 10>>

\* C8: for the 5x1 single-channel image [10, 200, 10, 10, 10], radius 1 and
\* default mode, the single row written to the sink is [10, 10, 10, 10, 10].
C8_SpikeRemoved ==
    (/\ LoopDone
     /\ drawable = ScenarioImage
     /\ Radius = 1
     /\ UserInputValues.lessThan = 0
     /\ UserInputValues.greaterThan = 0
     /\ ~UserInputValues.button
     /\ ~UserInputValues.button2) =>
        sink = << [y |-> 0, row |-> ScenarioOutput] >>

\* the run of the scenario has ended
C8_Witness ==
    /\ LoopDone
    /\ drawable = ScenarioImage
    /\ Radius = 1
    /\ UserInputValues.lessThan = 0
    /\ UserInputValues.greaterThan = 0
    /\ ~UserInputValues.button
    /\ ~UserInputValues.button2
    /\ Len(sink) = 1

-----------------------------------------------------------------------------
(* C9 *)

\* the progress updates due once `done` iterations have ended
UpdatesDue(done, height) ==
    [k \in 1 .. ((done + ProgressPeriod - 1) \div ProgressPeriod) |->
        [row |-> ProgressPeriod * (k - 1), height |-> height]]

\* C9: without a preview gimp_progress_update is called exactly after the
\* rows i with i % 16 = 0, with the fraction i/height in [0, 1); with a
\* preview neither gimp_progress_init nor gimp_progress_update is called; and
\* both modes write the same rows for the same region and configuration.
C9_ProgressIsObservational ==
    InMedian =>
        /\ preview => (progressInit = 0 /\ progressLog = <<>>)
        /\ ~preview => progressLog = UpdatesDue(i, drawable.height)
        /\ \A k \in 1 .. Len(progressLog) :
              /\ 0 <= progressLog[k].row
              /\ progressLog[k].row < progressLog[k].height
        /\ \A n \in 1 .. Len(trace) :
              trace[n][1] = "progress_update" =>
                 /\ trace[n][2] % ProgressPeriod = 0
                 /\ n > 1
                 /\ trace[n - 1] = <<"shuffle_tile_rows", trace[n][2]>>
        /\ (/\ LoopDone
            /\ lastRun.valid
            /\ lastRun.preview # preview
            /\ lastRun.src = drawable
            /\ lastRun.U = UserInputValues) => lastRun.rows = sink

\* a run without preview has updated the progress bar twice, after a run
\* with preview of the same image under the same configuration
C9_Witness ==
    /\ LoopDone
    /\ ~preview
    /\ Len(progressLog) = 2
    /\ progressLog[2].row = ProgressPeriod
    /\ lastRun.valid
    /\ lastRun.preview
    /\ lastRun.src = drawable
    /\ lastRun.U = UserInputValues
    /\ ~IsFlat(drawable)

-----------------------------------------------------------------------------
(* C10 *)

\* C10: for radius >= 1, at each call of handleInputRow for output row i the
\* window slot inputRow[k] holds the source row at vertical position
\* clamp(i + k - r, 0, h-1) of the selection.
C10_RowWindow ==
    (pc = "loop" /\ Radius >= 1) =>
        \A k \in 0 .. (2 * Radius) :
            rowPos[inputRow[k + 1]] =
                drawable.y1 + Clamp(i + k - Radius, 0, drawable.height - 1)

-----------------------------------------------------------------------------
(* C11 *)

\* the samples of a sequence with their multiplicities
BagOf(seq) ==
    [v \in { seq[n] : n \in 1 .. Len(seq) } |->
        Cardinality({ n \in 1 .. Len(seq) : seq[n] = v })]

\* channel k of column col of a row that continues past both of its ends
\* with copies of its first and of its last column
Replicated(row, col, k, width, channels) ==
    IF col < 0 THEN row[k + 1]
    ELSE IF col > width - 1 THEN row[channels * (width - 1) + k + 1]
    ELSE row[channels * col + k + 1]

\* C11: for radius >= 1, each column j and channel k, handleInputRow fills
\* exactly (2r+1)^2 samples, window rows 0..2r in the outer and columns
\* j-r..j+r in the inner order, each read from
\* inputRow[row][channels*clamp(col, 0, width-1) + k]; every offset read lies
\* in 0..width*channels-1; and at column 0 and at column width-1 the samples
\* are, as a multiset, those of a window whose rows continue past the edge
\* with copies of the edge column.
C11_SamplerClampsColumns ==
    [][ (pc = "loop" /\ Radius >= 1) =>
          \A p \in DOMAIN px' :
            LET j == p[1]
                k == p[2]
                width == drawable.width
                channels == drawable.channels
                side == 2 * Radius + 1
                rowOf(n) == (n - 1) \div side
                colOf(n) == (j - Radius) + ((n - 1) % side)
                padded == [n \in 1 .. (side * side) |->
                             Replicated(Window[rowOf(n) + 1], colOf(n), k, width, channels)]
            IN  /\ Len(px'[p].samples) = side * side
                /\ \A n \in 1 .. (side * side) :
                     LET offset == SampleOffset(colOf(n), k, width, channels)
                     IN  /\ offset = channels * Clamp(colOf(n), 0, width - 1) + k
                         /\ offset \in 0 .. (width * channels - 1)
                         /\ px'[p].samples[n] = Window[rowOf(n) + 1][offset + 1]
                /\ (j = 0 \/ j = width - 1) =>
                     BagOf(px'[p].samples) = BagOf(padded)
      ]_vars

\* a row of a two-channel noise image at least two columns wide and two rows
\* high has been sampled with radius 1: the samples of column 0 repeat its
\* first column, those of the last column repeat the last one, and the
\* window rows differ
C11_Witness ==
    /\ InMedian
    /\ Radius = 1
    /\ drawable.width >= 2
    /\ drawable.height >= 2
    /\ drawable.channels = 2
    /\ <<0, 1>> \in DOMAIN px
    /\ LET first == px[<<0, 1>>].samples
           last == px[<<drawable.width - 1, 1>>].samples
       IN  /\ Len(first) = 9
           /\ first[1] = first[2]
           /\ first[2] # first[3]
           /\ last[2] = last[3]
           /\ last[1] # last[2]
           /\ first[2] # first[5]

-----------------------------------------------------------------------------
(* C12 *)

\* the row buffers the slots of inputRow point to
Buffers(array) == { array[s] : s \in 1 .. Len(array) }

\* C12: during a call of median(), after initializeMemory, the 2r+1 slots of
\* inputRow always hold 2r+1 distinct live row buffers, and each iteration
\* leaves that set of buffers as it was; shuffle_tile_rows moves the buffer
\* of slot 0 to slot 2r and every other buffer from slot k to slot k-1, and
\* only the buffer that was at slot 0 gets new contents.
C12_RotationKeepsBuffers ==
    /\ [](InMedian =>
            /\ Len(inputRow) = 2 * Radius + 1
            /\ Cardinality(Buffers(inputRow)) = 2 * Radius + 1
            /\ Buffers(inputRow) = DOMAIN rowBuf
            /\ Buffers(inputRow) \subseteq heap
            /\ inputRowPtr \notin Buffers(inputRow)
            /\ outputRowPtr \notin Buffers(inputRow))
    /\ [][ pc = "loop" =>
             /\ Buffers(inputRow') = Buffers(inputRow)
             /\ DOMAIN rowBuf' = DOMAIN rowBuf
             /\ heap' = heap
             /\ inputRow'[2 * Radius + 1] = inputRow[1]
             /\ \A k \in 1 .. (2 * Radius) : inputRow'[k] = inputRow[k + 1]
             /\ \A b \in DOMAIN rowBuf : b # inputRow[1] => rowBuf'[b] = rowBuf[b]
       ]_vars

\* after two iterations with radius 1 the three buffers have moved two slots
\* down, and the buffer now in the last slot holds another row than the one
\* the initial fill gave it
C12_Witness ==
    /\ InMedian
    /\ Radius = 1
    /\ i = 2
    /\ inputRow[1] = inputRowPtr + 3
    /\ inputRow[2] = inputRowPtr + 1
    /\ inputRow[3] = inputRowPtr + 2
    /\ rowPos[inputRow[3]] # FillPos(0, drawable.y1, drawable.height)

-----------------------------------------------------------------------------
(* C13 *)

\* median() has returned to run() or to the dialog
MedianReturned == pc \in {"dialog", "flush"}

\* C13: when median() has returned, every buffer it allocated is released;
\* and between the steps of a call the live allocations are at most the row
\* window (the pointer array and its 2r+1 row buffers) and the output row,
\* the scratch array living inside handleInputRow only.
C13_BuffersReleased ==
    /\ MedianReturned => heap = {}
    /\ InMedian => Cardinality(heap) <= (2 * Radius + 1) + 2

-----------------------------------------------------------------------------
(* C14 *)

\* run() was called in GIMP_RUN_NONINTERACTIVE mode with a parameter count
\* other than 4
WrongParamCount ==
    runMode = "GIMP_RUN_NONINTERACTIVE" /\ status = "GIMP_PDB_CALLING_ERROR"

\* C14: when run() is called in GIMP_RUN_NONINTERACTIVE mode with a parameter
\* count other than 4, the status in returnValues[0] is
\* GIMP_PDB_CALLING_ERROR, median() is not executed and no row is written
\* to the drawable.
C14_CallingErrorStopsFilter ==
    WrongParamCount =>
        /\ values = "GIMP_PDB_CALLING_ERROR"
        /\ ~InMedian
        /\ sink = <<>>

-----------------------------------------------------------------------------
(* C15 *)

\* C15: for radius >= 1 and every variant configuration, each byte that
\* handleInputRow stores in outputRow is the computed median or the centre
\* sample pixelsArray[count/2] as it was before the sort, which is the byte
\* of the window's centre row at column j, channel k; the stored byte is one
\* of the pixel's samples, lies in 0..255 and equals the computed result.
C15_OutputIsASample ==
    [][ (pc = "loop" /\ Radius >= 1) =>
          \A p \in DOMAIN px' :
            LET c == px'[p]
                count == Len(c.samples)
                offset == drawable.channels * p[1] + p[2]
            IN  /\ c.result \in {c.median, c.middle}
                /\ c.middle = c.samples[(count \div 2) + 1]
                /\ c.middle = Window[Radius + 1][offset + 1]
                /\ c.result \in { c.samples[n] : n \in 1 .. count }
                /\ c.result \in 0 .. (ByteRange - 1)
                /\ outputRow'[offset + 1] = c.result
      ]_vars

\* with radius >= 1 and one of the four variant modes selected, a byte in
\* the upper half of the byte range has been stored that is the centre
\* sample and differs from the median
C15_Witness ==
    /\ InMedian
    /\ Radius >= 1
    /\ ~DefaultMode(UserInputValues)
    /\ \E p \in DOMAIN px :
         /\ px[p].result = px[p].middle
         /\ px[p].middle # px[p].median
         /\ outputRow[drawable.channels * p[1] + p[2] + 1] = px[p].middle
         /\ px[p].middle >= ByteRange \div 2

====
